---- MODULE Spec2Model ----
(***************************************************************************)
(* Model of the heap-debugging layer of bmem.h (debugAlloc, debugRealloc,  *)
(* debugFree, b__checkForOverrun) on top of the general-purpose allocator  *)
(* (heapAlloc, heapRealloc, heapFree).                                     *)
(*                                                                         *)
(* Memory is a set of slots; one slot holds one underlying allocation:     *)
(* the HeapBlockInfo header, the 8-byte header watermark, the payload and  *)
(* the 8-byte footer watermark.  A payload pointer is identified with the  *)
(* address of its slot, NULL is 0.  The contents of a slot survive its     *)
(* release (stale memory), or are overwritten by the allocator.            *)
(*                                                                         *)
(* The temporary storage (talloc, tempMark, tempReset) is one buffer of    *)
(* B_TEMP_MEM_SIZE bytes and one TempMemStats per thread; a position in    *)
(* the buffer is an offset, a pointer into it is base address + offset.    *)
(***************************************************************************)
EXTENDS Integers, Sequences, FiniteSets, TLC

\* ------------------------------------------------------------- bounds
MaxAddr == 3
MaxSize == 2
MaxCalls == 3
MaxCleanCalls == 4
MaxCorrupt == 1
MaxTime == 1
SizeBits == 12
MaxDumpCalls == 3
MaxDumps == 2
NThreads == 2
B_TEMP_MEM_SIZE == 8
MaxTSize == 3
MaxAlign == 4
MaxMark == 3
MaxArenaCalls == 3
MaxThreadCalls == 2

\* ---------------------------------------------------------- constants
NULL == 0
WaterMarkLen == 8
DefaultAlign == 8
FillByte == 1

Addr == 1..MaxAddr
Ptr == Addr \cup {NULL}

\* size_t arithmetic: unsigned, wraps modulo 2^SizeBits
RECURSIVE Pow2(_)
Pow2(n) == IF n = 0 THEN 1 ELSE 2 * Pow2(n - 1)
SizeMod == Pow2(SizeBits)
SzAdd(a, b) == (a + b) % SizeMod
SzSub(a, b) == (a - b + SizeMod) % SizeMod

\* the two fingerprints "ORHEADER" and "ORFOOTER", byte by byte (ASCII)
HeaderMark == <<79, 82, 72, 69, 65, 68, 69, 82>>
FooterMark == <<79, 82, 70, 79, 79, 84, 69, 82>>
\* bytes that match neither fingerprint
Garbage == [i \in 1..WaterMarkLen |-> 0]

\* the i-th byte of the object representation of an unsigned integer (little endian)
RECURSIVE ByteOf(_, _)
ByteOf(x, i) == IF i = 1 THEN x % 256 ELSE ByteOf(x \div 256, i - 1)

\* memcmp(a, b, n) == 0
MemEq(a, b, n) == \A i \in 1..n : a[i] = b[i]

\* the caller's three call sites: (__FILE__, __func__, __LINE__)
AllocSite == [file |-> "a.c", func |-> "f", line |-> 10]
ReallocSite == [file |-> "a.c", func |-> "f", line |-> 11]
FreeSite == [file |-> "a.c", func |-> "f", line |-> 12]

RECURSIVE Gcd(_, _)
Gcd(a, b) == IF b = 0 THEN a ELSE Gcd(b, a % b)
Abs(x) == IF x < 0 THEN -x ELSE x
\* exact rationals <<numerator, denominator>> stand for the double fields
Rat(n, d) == LET g == Gcd(Abs(n), Abs(d)) IN IF g = 0 THEN <<0, 1>> ELSE <<n \div g, d \div g>>

VARIABLES
    mem,                \* Addr -> contents of the slot (live or stale)
    allocated,          \* slots the general-purpose allocator has handed out
    b__firstHeapBlock,  \* the registry anchor
    b__heapStats,       \* the process-wide HeapStats
    asserts,            \* the build: TRUE when B_ASSERT is compiled in (NDEBUG not defined)
    status,             \* "running", "assert" (B_ASSERT failed) or "segv" (write through NULL)
    now,                \* what time(NULL) returns
    ret,                \* what the last call returned
    lastCall,           \* the last call made: [op, mem, size]
    calls,              \* completed calls per kind
    stale,              \* pointers the caller still holds to released blocks
    misuse,             \* the caller has passed a stale pointer
    overran,            \* number of writes the caller made outside a payload
    peak,               \* largest currNumAllocs / currBytesAlloced held so far
    rt,                 \* the state before the last call, when that call was a successful debugAlloc
    dumped,             \* what the last debugHeapDump printed, <<>> once the heap was called again
    dumps,              \* consecutive debugHeapDump calls since the last heap call
    leakCheck,          \* the build: TRUE when malloc/realloc/free are the debug macros
    clearTemp,          \* the build: TRUE when tempReset zeroes the memory it takes back
    tempBase,           \* thread -> address of b__tempMem
    b__tempMem,         \* thread -> contents of the buffer, by offset
    b__tempMemStats,    \* thread -> TempMemStats
    tret,               \* what the last temporary-storage call returned
    tlive,              \* thread -> the talloc results in the buffer no tempReset went below
    marked,             \* thread -> the last tempMark result while only talloc calls followed it
    acalls,             \* number of talloc and tempReset calls made
    tmisuse             \* thread -> what the calls so far met: "align" (not a power of two),
                        \* "mark" (above the cursor), "huge" (alignedOffset + size beyond size_t)

vars == <<mem, allocated, b__firstHeapBlock, b__heapStats, asserts, status, now, ret,
          lastCall, calls, stale, misuse, overran, peak, rt, dumped, dumps,
          leakCheck, clearTemp, tempBase, b__tempMem, b__tempMemStats, tret, tlive,
          marked, acalls, tmisuse>>

\* the build and the placement of the buffers: fixed once the program runs
buildVars == <<asserts, leakCheck, clearTemp, tempBase>>
\* the temporary storage and the bookkeeping of its calls
tempVars == <<b__tempMem, b__tempMemStats, tret, tlive, marked, acalls, tmisuse>>

\* contents of memory that was never handed out
Junk(a) ==
    [size |-> 0, size0 |-> 0, time |-> 0, time0 |-> 0,
     file |-> "", file0 |-> "", func |-> "", func0 |-> "",
     line |-> 0, line0 |-> 0, prev |-> a, next |-> a,
     header |-> Garbage, footer |-> Garbage]

HeapStats0 ==
    [totalNumAllocs |-> 0, totalNumReallocs |-> 0, totalNumFrees |-> 0,
     totalBytesAlloced |-> 0, totalBytesFreed |-> 0,
     currNumAllocs |-> 0, currBytesAlloced |-> 0,
     maxNumAllocs |-> 0, maxBytesAlloced |-> 0,
     avgAllocLifespan |-> <<0, 1>>]

\* blocks reached from the anchor by following next
RECURSIVE Walk(_, _, _)
Walk(m, b, seen) == IF b \in seen THEN seen ELSE Walk(m, m[b].next, seen \cup {b})
RingOf(m, first) == IF first = NULL THEN {} ELSE Walk(m, first, {})

\* what released memory may hold afterwards: untouched, or with the watermarks
\* overwritten by the allocator
Released(r) == {r, [r EXCEPT !.header = Garbage, !.footer = Garbage]}

\* ------------------------------------------------- general-purpose allocator
\* malloc: any free slot, or NULL
heapAlloc == (Addr \ allocated) \cup {NULL}
\* realloc(p): in place, moved to a free slot, or NULL (p stays allocated)
heapRealloc(p) == {p} \cup (Addr \ (allocated \cup {p})) \cup {NULL}

\* ------------------------------------------------- b__checkForOverrun
\* The WaterMarkLen bytes at memory - sizeof(HeapBlockInfo), which is
\* block + sizeof(b__WaterMark): they lie inside the HeapBlockInfo, not in the header
\* watermark at memory - sizeof(b__WaterMark).  With 8-byte size_t they are the
\* bytes of the field size0.
InfoBytesAtHeaderPtr(r) == [i \in 1..WaterMarkLen |-> ByteOf(r.size0, i)]

\* the check without its header comparison
b__checkForOverrun_FooterOnly(m, p) ==
    LET footer == m[p].footer
        footerGood == MemEq(footer, FooterMark, WaterMarkLen)
    IN  footerGood

b__checkForOverrun(m, p) ==
    LET header == InfoBytesAtHeaderPtr(m[p])
        footer == m[p].footer
        headerGood == MemEq(header, HeaderMark, WaterMarkLen)
        footerGood == MemEq(footer, FooterMark, WaterMarkLen)
    IN  headerGood /\ footerGood

\* B_ASSERT(cond) as an empty statement, whatever the build
AssertFails_CompiledOut(cond) == FALSE

\* B_ASSERT(cond): aborts when compiled in and cond is false
AssertFails(cond) == asserts /\ ~cond

\* ------------------------------------------------- debugAlloc
\* lines 310-324: metadata and the two watermarks
AllocInit(m, a, size, site, t) ==
    [m EXCEPT ![a] = [@ EXCEPT !.size0 = size, !.file0 = site.file, !.func0 = site.func,
                                !.line0 = site.line, !.time0 = t,
                                !.size = size, !.file = site.file, !.func = site.func,
                                !.line = site.line, !.time = t,
                                !.header = HeaderMark, !.footer = FooterMark]]

\* lines 326-334: link the block in front of the anchor; <<memory, anchor>>
AllocLink(m, first, block) ==
    LET f  == IF first = NULL THEN block ELSE first
        m1 == IF first = NULL THEN [m EXCEPT ![f].prev = f] ELSE m
        m2 == [m1 EXCEPT ![block].next = f]
        m3 == [m2 EXCEPT ![block].prev = m2[f].prev]
        m4 == [m3 EXCEPT ![m3[f].prev].next = block]
        m5 == [m4 EXCEPT ![f].prev = block]
    IN  <<m5, f>>

\* lines 337-344
AllocStats(s, size) ==
    LET n == SzAdd(s.currNumAllocs, 1)
        b == SzAdd(s.currBytesAlloced, size)
    IN  [s EXCEPT !.totalNumAllocs = SzAdd(@, 1),
                  !.totalBytesAlloced = SzAdd(@, size),
                  !.currNumAllocs = n,
                  !.maxNumAllocs = IF n > @ THEN n ELSE @,
                  !.currBytesAlloced = b,
                  !.maxBytesAlloced = IF b > @ THEN b ELSE @]

debugAlloc(size, site) ==
    IF size = 0
    THEN /\ ret' = NULL
         /\ UNCHANGED <<mem, allocated, b__firstHeapBlock, b__heapStats, status>>
    ELSE \E a \in heapAlloc :
           IF a = NULL
           THEN \* block->size0 = size writes through a null pointer
                /\ status' = "segv"
                /\ ret' = NULL
                /\ UNCHANGED <<mem, allocated, b__firstHeapBlock, b__heapStats>>
           ELSE LET m1 == AllocInit(mem, a, size, site, now)
                    lk == AllocLink(m1, b__firstHeapBlock, a)
                IN  /\ mem' = lk[1]
                    /\ b__firstHeapBlock' = lk[2]
                    /\ allocated' = allocated \cup {a}
                    /\ b__heapStats' = AllocStats(b__heapStats, size)
                    /\ ret' = a
                    /\ UNCHANGED status

\* ------------------------------------------------- debugFree
\* debugFree without line 412: the predecessor keeps its link to the block
FreeUnlink_OneSided(m, block) ==
    IF m[block].next = m[block].prev
    THEN LET other == m[block].next
         IN  [m EXCEPT ![other].next = other, ![other].prev = other]
    ELSE [m EXCEPT ![m[block].next].prev = m[block].prev]

\* lines 406-413: take the block out of the ring
FreeUnlink(m, block) ==
    IF m[block].next = m[block].prev
    THEN LET other == m[block].next
         IN  [m EXCEPT ![other].next = other, ![other].prev = other]
    ELSE LET m1 == [m EXCEPT ![m[block].next].prev = m[block].prev]
         IN  [m1 EXCEPT ![m1[block].prev].next = m1[block].next]

\* lines 415-418: move or clear the anchor
FreeAnchor(m, first, block) ==
    LET f1 == IF block = first THEN m[first].next ELSE first
    IN  IF block = f1 THEN NULL ELSE f1

\* debugFree without its currNumAllocs-- (line 422)
FreeStats_KeepsCount(s, size, lifespan) ==
    LET k   == SzAdd(s.totalNumFrees, 1)
        avg == s.avgAllocLifespan
    IN  [s EXCEPT !.totalNumFrees = k,
                  !.totalBytesFreed = SzAdd(@, size),
                  !.currBytesAlloced = SzSub(@, size),
                  !.avgAllocLifespan = Rat(avg[1] * k + lifespan * avg[2] - avg[1], avg[2] * k)]

\* lines 420-427
FreeStats(s, size, lifespan) ==
    LET k   == SzAdd(s.totalNumFrees, 1)
        avg == s.avgAllocLifespan
    IN  [s EXCEPT !.totalNumFrees = k,
                  !.totalBytesFreed = SzAdd(@, size),
                  !.currNumAllocs = SzSub(@, 1),
                  !.currBytesAlloced = SzSub(@, size),
                  !.avgAllocLifespan = Rat(avg[1] * k + lifespan * avg[2] - avg[1], avg[2] * k)]

\* does not say what the call returns: debugFree is void
debugFree(p, site) ==
    IF p = NULL
    THEN UNCHANGED <<mem, allocated, b__firstHeapBlock, b__heapStats, status>>
    ELSE LET isOverrun == b__checkForOverrun(mem, p)
         IN  IF AssertFails(~isOverrun)
             THEN /\ status' = "assert"
                  /\ UNCHANGED <<mem, allocated, b__firstHeapBlock, b__heapStats>>
             ELSE LET block == p
                      m1 == FreeUnlink(mem, block)
                  IN  /\ b__firstHeapBlock' = FreeAnchor(m1, b__firstHeapBlock, block)
                      /\ b__heapStats' = FreeStats(b__heapStats, m1[block].size,
                                                   m1[block].time - m1[block].time0)
                      /\ allocated' = allocated \ {block}
                      /\ \E r \in Released(m1[block]) : mem' = [m1 EXCEPT ![block] = r]
                      /\ UNCHANGED status

\* ------------------------------------------------- debugRealloc
\* lines 366-367: point the neighbours at the block
ReallocRelink(m, block) ==
    LET m1 == [m EXCEPT ![m[block].prev].next = block]
    IN  [m1 EXCEPT ![m1[block].next].prev = block]

\* lines 368-369
ReallocAnchor(first, block) == IF block = first THEN block ELSE first

\* a debugRealloc that stamps the original allocation time as well
ReallocMeta_StampsOrigin(m, block, size, site, t, footer) ==
    [m EXCEPT ![block] = [@ EXCEPT !.size = size, !.file = site.file, !.func = site.func,
                                    !.line = site.line, !.time = t, !.time0 = t,
                                    !.footer = footer]]

\* lines 371-375; the footer is the 8 bytes at payload + block->size
ReallocMeta(m, block, size, site, t, footer) ==
    [m EXCEPT ![block] = [@ EXCEPT !.size = size, !.file = site.file, !.func = site.func,
                                    !.line = site.line, !.time = t, !.footer = footer]]

\* lines 378-389
ReallocStats(s, size, size0) ==
    LET s1 == [s EXCEPT !.totalNumReallocs = SzAdd(@, 1)]
        s2 == IF size > size0
              THEN [s1 EXCEPT !.totalBytesAlloced = SzAdd(@, SzSub(size, size0)),
                              !.currBytesAlloced = SzAdd(@, SzSub(size, size0))]
              ELSE [s1 EXCEPT !.totalBytesFreed = SzAdd(@, SzSub(size0, size)),
                              !.currBytesAlloced = SzSub(@, SzSub(size0, size))]
    IN  IF s2.totalBytesAlloced > s2.maxBytesAlloced
        THEN [s2 EXCEPT !.maxBytesAlloced = s2.totalBytesAlloced]
        ELSE s2

\* the 8 bytes found at payload + size once the block has the new size: the old
\* footer when the size is the same, otherwise bytes nobody wrote as a footer
FooterAt(m, p, size) ==
    IF size = m[p].size THEN {m[p].footer} ELSE {FooterMark, Garbage}

\* lines 357-391: a block and a non-zero size
debugReallocBlock(p, size, site) ==
         LET isOverrun == b__checkForOverrun(mem, p)
         IN  IF AssertFails(~isOverrun)
             THEN /\ status' = "assert"
                  /\ ret' = NULL
                  /\ UNCHANGED <<mem, allocated, b__firstHeapBlock, b__heapStats>>
             ELSE \E block \in heapRealloc(p) :
                    IF block = NULL
                    THEN \* block->prev->next = block reads through a null pointer
                         /\ status' = "segv"
                         /\ ret' = NULL
                         /\ UNCHANGED <<mem, allocated, b__firstHeapBlock, b__heapStats>>
                    ELSE \E old \in (IF block = p THEN {mem[p]} ELSE Released(mem[p])),
                            footer \in FooterAt(mem, p, size) :
                           LET m0 == [mem EXCEPT ![block] = mem[p], ![p] = old]
                               m1 == IF block = p THEN mem ELSE m0
                               m2 == ReallocRelink(m1, block)
                               m3 == ReallocMeta(m2, block, size, site, now, footer)
                           IN  /\ mem' = m3
                               /\ b__firstHeapBlock' = ReallocAnchor(b__firstHeapBlock, block)
                               /\ allocated' = (allocated \ {p}) \cup {block}
                               /\ b__heapStats' = ReallocStats(b__heapStats, size, m3[block].size0)
                               /\ ret' = block
                               /\ UNCHANGED status

\* debugRealloc without lines 354-355: a null pointer is refused
debugRealloc_NullRefused(p, size, site) ==
    IF size = 0
    THEN debugFree(p, site) /\ ret' = NULL
    ELSE IF p = NULL
    THEN /\ ret' = NULL
         /\ UNCHANGED <<mem, allocated, b__firstHeapBlock, b__heapStats, status>>
    ELSE debugReallocBlock(p, size, site)

debugRealloc(p, size, site) ==
    IF size = 0
    THEN debugFree(p, site) /\ ret' = NULL
    ELSE IF p = NULL
    THEN debugAlloc(size, site)
    ELSE debugReallocBlock(p, size, site)

\* ------------------------------------------------- the program around the calls
Max(a, b) == IF a > b THEN a ELSE b

NoRt == [ok |-> FALSE, ptr |-> NULL, num |-> 0, bytes |-> 0, ring |-> {}]

\* pointers a caller can pass: live ones and NULL; a faulty caller also stale ones
HeldLive == allocated \cup {NULL}
Held == allocated \cup stale \cup {NULL}

NCalls == calls.alloc + calls.realloc + calls.free + calls.other

\* bookkeeping common to the three calls; kind is the kind of the call when it completes
Account(op, p, size, kind) ==
    /\ lastCall' = [op |-> op, mem |-> p, size |-> size]
    /\ calls' = IF status' = "running"
                THEN [calls EXCEPT ![kind] = @ + 1]
                ELSE [calls EXCEPT !.other = @ + 1]
    /\ stale' = (stale \cup (allocated \ allocated')) \ allocated'
    /\ misuse' = (misuse \/ p \in stale)
    /\ peak' = [num |-> Max(peak.num, b__heapStats'.currNumAllocs),
                bytes |-> Max(peak.bytes, b__heapStats'.currBytesAlloced)]
    /\ dumped' = <<>>
    /\ dumps' = 0
    /\ UNCHANGED <<now, overran>>
    /\ UNCHANGED buildVars
    /\ UNCHANGED tempVars

\* ------------------------------------------------- temporary storage
Threads == 1..NThreads

\* bitwise & and ~ on size_t
RECURSIVE BitAnd(_, _)
BitAnd(a, b) ==
    IF a = 0 \/ b = 0 THEN 0
    ELSE (a % 2) * (b % 2) + 2 * BitAnd(a \div 2, b \div 2)
BitNot(a) == SizeMod - 1 - a

\* (size_t)i for an int i, and (int)x for a size_t x
ToSize(i) == i % SizeMod
ToInt(x) == IF 2 * x < SizeMod THEN x ELSE x - SizeMod

\* malloc(size) in talloc is debugAlloc(size, __FILE__, __func__, __LINE__) when the
\* macros of lines 230-234 are in force
TallocSite == [file |-> "bmem.h", func |-> "talloc", line |-> 494]

TempMemStats0 ==
    [totalNumAllocs |-> 0, totalNumFullResets |-> 0, totalBytesAlloced |-> 0,
     currBytesAlloced |-> 0, maxBytesAlloced |-> 0,
     totalNumLeaks |-> 0, totalBytesLeaked |-> 0,
     numAllocsSinceFullReset |-> 0, bytesAllocedSinceFullReset |-> 0,
     avgNumAllocsPerResetCycle |-> <<0, 1>>, avgBytesAllocedPerResetCycle |-> <<0, 1>>]

b__roundUpPow2(x, pow2) ==
    IF BitAnd(x, SzSub(pow2, 1)) = 0
    THEN x
    ELSE BitAnd(SzAdd(x, pow2), BitNot(SzSub(pow2, 1)))

\* lines 480-486 of talloc: the alignment used, the assertion on it, memStart, memEnd
TallocAlign(align) == IF align = 0 THEN DefaultAlign ELSE align
TallocAlignOk(align) == BitAnd(TallocAlign(align), SzSub(TallocAlign(align), 1)) = 0
TallocStart(s, align) == b__roundUpPow2(s.currBytesAlloced, TallocAlign(align))
TallocEnd(s, size, align) == SzAdd(TallocStart(s, align), size)
\* line 487, for a buffer of cap bytes
TallocOverflows(s, size, align, cap) == TallocEnd(s, size, align) > cap

\* lines 492-493
TallocLeakStats(s, size) ==
    [s EXCEPT !.totalNumLeaks = SzAdd(@, 1),
              !.totalBytesLeaked = SzAdd(@, size)]

\* talloc without line 500: the cursor stays where it was
TallocStats_KeepsCursor(s, memStart, memEnd) ==
    LET n == SzSub(memEnd, memStart)
    IN  [s EXCEPT !.bytesAllocedSinceFullReset = SzAdd(@, n),
                  !.numAllocsSinceFullReset = SzAdd(@, 1),
                  !.totalNumAllocs = SzAdd(@, 1),
                  !.totalBytesAlloced = SzAdd(@, n)]

\* lines 497-503
TallocStats(s, memStart, memEnd) ==
    LET n  == SzSub(memEnd, memStart)
        s1 == [s EXCEPT !.bytesAllocedSinceFullReset = SzAdd(@, n),
                        !.numAllocsSinceFullReset = SzAdd(@, 1),
                        !.totalNumAllocs = SzAdd(@, 1),
                        !.currBytesAlloced = memEnd,
                        !.totalBytesAlloced = SzAdd(@, n)]
    IN  IF s1.currBytesAlloced > s1.maxBytesAlloced
        THEN [s1 EXCEPT !.maxBytesAlloced = s1.currBytesAlloced]
        ELSE s1

\* the statistics after talloc(size, align) on a buffer of cap bytes
TallocStatsAfter(s, size, align, cap) ==
    IF TallocOverflows(s, size, align, cap)
    THEN TallocLeakStats(s, size)
    ELSE TallocStats(s, TallocStart(s, align), TallocEnd(s, size, align))

\* what this talloc call meets: an alignment that is no power of two, a size with
\* which alignedOffset + size leaves the size_t range
TallocNotes(s, size, align) ==
    (IF TallocAlignOk(align) THEN {} ELSE {"align"})
    \cup (IF TallocStart(s, align) + size >= SizeMod THEN {"huge"} ELSE {})

\* a static that is not B_THREAD_LOCAL: one object, every thread sees the store
ThreadLocalStore_Shared(f, t, v) == [u \in DOMAIN f |-> v]

\* a store to a B_THREAD_LOCAL object by thread t: the object of t alone changes
ThreadLocalStore(f, t, v) == [f EXCEPT ![t] = v]

\* the part of a call that is the same for every temporary-storage call
TempFrame(t) ==
    /\ acalls' = acalls + 1
    /\ UNCHANGED <<now, calls, stale, misuse, overran, rt, dumped, dumps>>
    /\ UNCHANGED buildVars

HeapSame == UNCHANGED <<mem, allocated, b__firstHeapBlock, b__heapStats, ret, peak>>

\* the general-purpose malloc(size) of a build without the debug macros: a free
\* slot or NULL, the registry is not involved
PlainMalloc(t) ==
    \E a \in heapAlloc :
       /\ allocated' = allocated \cup ({a} \ {NULL})
       /\ tret' = [t |-> t, where |-> "heap", ptr |-> a]
       /\ UNCHANGED <<mem, b__firstHeapBlock, b__heapStats, ret, peak, status>>

\* malloc(size) as the debug macro
DebugMalloc(t, size) ==
    /\ debugAlloc(size, TallocSite)
    /\ tret' = [t |-> t, where |-> "heap", ptr |-> ret']
    /\ peak' = [num |-> Max(peak.num, b__heapStats'.currNumAllocs),
                bytes |-> Max(peak.bytes, b__heapStats'.currBytesAlloced)]

talloc(t, size, align) ==
    LET s        == b__tempMemStats[t]
        memStart == TallocStart(s, align)
        memEnd   == TallocEnd(s, size, align)
    IN  /\ lastCall' = [op |-> "talloc", t |-> t, mem |-> NULL, size |-> size, align |-> align]
        /\ tmisuse' = [tmisuse EXCEPT ![t] = @ \cup TallocNotes(s, size, align)]
        /\ TempFrame(t)
        /\ UNCHANGED <<b__tempMem, marked>>
        /\ IF AssertFails(TallocAlignOk(align))
           THEN /\ status' = "assert"
                /\ tret' = [t |-> t, where |-> "none", ptr |-> NULL]
                /\ HeapSame
                /\ UNCHANGED <<b__tempMemStats, tlive>>
           ELSE IF TallocOverflows(s, size, align, B_TEMP_MEM_SIZE)
           THEN /\ b__tempMemStats' = ThreadLocalStore(b__tempMemStats, t, TallocLeakStats(s, size))
                /\ UNCHANGED tlive
                /\ IF leakCheck THEN DebugMalloc(t, size) ELSE PlainMalloc(t)
           ELSE /\ b__tempMemStats' =
                       ThreadLocalStore(b__tempMemStats, t, TallocStats(s, memStart, memEnd))
                /\ tlive' = [tlive EXCEPT ![t] = @ \cup {[id |-> SzAdd(s.totalNumAllocs, 1),
                                                          start |-> memStart, size |-> size,
                                                          cut |-> FALSE]}]
                /\ tret' = [t |-> t, where |-> "buffer", ptr |-> tempBase[t] + memStart]
                /\ HeapSame
                /\ UNCHANGED status

\* tempMark: reads the cursor; the bookkeeping remembers the mark for the caller
tempMark(t) ==
    /\ tret' = [t |-> t, where |-> "mark", ptr |-> ToInt(b__tempMemStats[t].currBytesAlloced)]
    /\ marked' = [marked EXCEPT ![t] = [ok |-> TRUE, m |-> tret'.ptr]]
    /\ lastCall' = [op |-> "tempMark", t |-> t, mem |-> NULL, size |-> 0]
    /\ HeapSame
    /\ UNCHANGED <<b__tempMem, b__tempMemStats, tlive, acalls, tmisuse, status>>
    /\ UNCHANGED <<now, calls, stale, misuse, overran, rt, dumped, dumps>>
    /\ UNCHANGED buildVars

\* tempReset without the memset of line 532
TempClear_Keeps(buf, newMark, currMark) == buf

\* line 532: memset(&b__tempMem[newMark], 0, currMark - newMark)
TempClear(buf, newMark, currMark) ==
    [i \in DOMAIN buf |-> IF newMark <= i /\ i < currMark THEN 0 ELSE buf[i]]

\* the memset stays inside the buffer
TempClearInside(newMark, currMark) == newMark <= currMark /\ currMark <= B_TEMP_MEM_SIZE

\* the running average of line 539 and 541: avg += (val - avg) / count, in exact arithmetic
RunningAvg(avg, val, count) ==
    Rat(avg[1] * count + (val * avg[2] - avg[1]), avg[2] * count)

\* lines 535-545
TempFullResetStats(s) ==
    LET k == SzAdd(s.totalNumFullResets, 1)
    IN  [s EXCEPT !.totalNumFullResets = k,
                  !.avgBytesAllocedPerResetCycle =
                       RunningAvg(@, s.bytesAllocedSinceFullReset, k),
                  !.avgNumAllocsPerResetCycle =
                       RunningAvg(@, s.numAllocsSinceFullReset, k),
                  !.numAllocsSinceFullReset = 0,
                  !.bytesAllocedSinceFullReset = 0]

\* lines 535-548
TempResetStats(s, newMark) ==
    LET s1 == IF newMark = 0 THEN TempFullResetStats(s) ELSE s
    IN  [s1 EXCEPT !.currBytesAlloced = newMark,
                   !.numAllocsSinceFullReset = 0]

\* the talloc results a reset to newMark leaves: those that start below it; cut
\* records that the reset went below the end
TempLiveAfter(live, newMark) ==
    {[r EXCEPT !.cut = @ \/ newMark < r.start + r.size] : r \in {x \in live : x.start < newMark}}

tempReset(t, mark) ==
    LET s        == b__tempMemStats[t]
        newMark  == ToSize(mark)
        currMark == s.currBytesAlloced
    IN  /\ lastCall' = [op |-> "tempReset", t |-> t, mem |-> NULL, size |-> 0, mark |-> mark]
        /\ tmisuse' = [tmisuse EXCEPT ![t] = @ \cup (IF newMark <= currMark THEN {} ELSE {"mark"})]
        /\ tret' = [t |-> t, where |-> "none", ptr |-> NULL]
        /\ marked' = [marked EXCEPT ![t].ok = FALSE]
        /\ TempFrame(t)
        /\ HeapSame
        /\ IF AssertFails(newMark <= currMark)
           THEN /\ status' = "assert"
                /\ UNCHANGED <<b__tempMem, b__tempMemStats, tlive>>
           ELSE IF clearTemp /\ ~TempClearInside(newMark, currMark)
           THEN \* the memset runs over the end of the buffer
                /\ status' = "segv"
                /\ UNCHANGED <<b__tempMem, b__tempMemStats, tlive>>
           ELSE /\ b__tempMem' = IF clearTemp
                                 THEN ThreadLocalStore(b__tempMem, t,
                                                       TempClear(b__tempMem[t], newMark, currMark))
                                 ELSE b__tempMem
                /\ b__tempMemStats' = ThreadLocalStore(b__tempMemStats, t, TempResetStats(s, newMark))
                /\ tlive' = [tlive EXCEPT ![t] = TempLiveAfter(@, newMark)]
                /\ UNCHANGED status

\* the caller fills the memory its last talloc returned
Fill(t) ==
    /\ status = "running"
    /\ tret.t = t
    /\ tret.where = "buffer"
    /\ lastCall.op = "talloc"
    /\ LET start == tret.ptr - tempBase[t]
           end   == start + lastCall.size
       IN  /\ end <= B_TEMP_MEM_SIZE
           /\ \E i \in start..(end - 1) : b__tempMem[t][i] # FillByte
           /\ b__tempMem' = ThreadLocalStore(b__tempMem, t,
                                [i \in DOMAIN b__tempMem[t] |->
                                    IF start <= i /\ i < end THEN FillByte ELSE b__tempMem[t][i]])
    /\ HeapSame
    /\ UNCHANGED <<b__tempMemStats, tret, tlive, marked, acalls, tmisuse, status, lastCall>>
    /\ UNCHANGED <<now, calls, stale, misuse, overran, rt, dumped, dumps>>
    /\ UNCHANGED buildVars

\* ------------------------------------------------- debugHeapDump
\* what one pass of the loop prints for a block (lines 441-455); the second line
\* takes its timestamp from block->time
DumpLine(m, index, block) ==
    LET b == m[block]
    IN  [index |-> index, size |-> b.size, file |-> b.file, line |-> b.line,
         func |-> b.func, time |-> b.time,
         from |-> IF \/ b.size # b.size0 \/ b.file # b.file0 \/ b.line # b.line0
                     \/ b.func # b.func0 \/ b.time # b.time0
                  THEN <<[size |-> b.size0, file |-> b.file0, line |-> b.line0,
                          func |-> b.func0, time |-> b.time]>>
                  ELSE <<>>,
         block |-> block]

\* the do-while of lines 439-460 from block on, at most fuel passes: <<lines, finished>>
RECURSIVE DumpLoop(_, _, _, _, _)
DumpLoop(m, first, block, index, fuel) ==
    IF fuel = 0
    THEN <<(<<>>), FALSE>>
    ELSE LET nxt  == m[block].next
             rest == IF nxt = first THEN <<(<<>>), TRUE>>
                     ELSE DumpLoop(m, first, nxt, index + 1, fuel - 1)
         IN  <<(<<DumpLine(m, index, block)>>) \o rest[1], rest[2]>>

\* more passes than there are blocks: the loop has come back to a block it printed
\* without meeting the anchor, and goes on for ever
DumpFuel == MaxAddr + 1

\* a dump that leaves the anchor on the block after the one it started from
debugHeapDump_MovesAnchor ==
    /\ lastCall' = [op |-> "debugHeapDump", mem |-> NULL, size |-> 0]
    /\ dumps' = dumps + 1
    /\ IF b__firstHeapBlock = NULL
       THEN dumped' = <<>> /\ UNCHANGED <<status, b__firstHeapBlock>>
       ELSE LET d == DumpLoop(mem, b__firstHeapBlock, b__firstHeapBlock, 1, DumpFuel)
            IN  /\ dumped' = d[1]
                /\ status' = IF d[2] THEN status ELSE "hang"
                /\ b__firstHeapBlock' = mem[b__firstHeapBlock].next
    /\ UNCHANGED <<mem, allocated, b__heapStats, now, ret,
                   calls, stale, misuse, overran, peak, rt>>
    /\ UNCHANGED buildVars
    /\ UNCHANGED tempVars

debugHeapDump ==
    /\ lastCall' = [op |-> "debugHeapDump", mem |-> NULL, size |-> 0]
    /\ dumps' = dumps + 1
    /\ IF b__firstHeapBlock = NULL
       THEN dumped' = <<>> /\ UNCHANGED status
       ELSE LET d == DumpLoop(mem, b__firstHeapBlock, b__firstHeapBlock, 1, DumpFuel)
            IN  /\ dumped' = d[1]
                /\ status' = IF d[2] THEN status ELSE "hang"
    /\ UNCHANGED <<mem, allocated, b__firstHeapBlock, b__heapStats, now, ret,
                   calls, stale, misuse, overran, peak, rt>>
    /\ UNCHANGED buildVars
    /\ UNCHANGED tempVars

\* ------------------------------------------------- initial states
\* addresses the buffer of the first thread can have: a multiple of every alignment
\* asked for, and one that is a multiple of the smaller alignments only
TempBases == {2 * DefaultAlign, 2 * DefaultAlign + DefaultAlign \div 2}

\* zero-initialised statics of lines 285-288, nothing called yet
Start ==
    /\ b__tempMem = [t \in Threads |-> [i \in 0..(B_TEMP_MEM_SIZE - 1) |-> 0]]
    /\ b__tempMemStats = [t \in Threads |-> TempMemStats0]
    /\ tret = [t |-> 1, where |-> "none", ptr |-> NULL]
    /\ tlive = [t \in Threads |-> {}]
    /\ marked = [t \in Threads |-> [ok |-> FALSE, m |-> 0]]
    /\ acalls = 0
    /\ tmisuse = [t \in Threads |-> {}]
    /\ dumped = <<>>
    /\ dumps = 0

\* empty heap, nothing called yet
HeapStart ==
    /\ mem = [a \in Addr |-> Junk(a)]
    /\ allocated = {}
    /\ b__firstHeapBlock = NULL
    /\ b__heapStats = HeapStats0
    /\ status = "running"
    /\ now = 0
    /\ ret = NULL
    /\ lastCall = [op |-> "none", mem |-> NULL, size |-> 0]
    /\ calls = [alloc |-> 0, realloc |-> 0, free |-> 0, other |-> 0]
    /\ stale = {}
    /\ misuse = FALSE
    /\ overran = 0
    /\ peak = [num |-> 0, bytes |-> 0]
    /\ rt = NoRt

\* the program calls the debug functions: the macros are in force and the other
\* switches follow NDEBUG
Init ==
    /\ Start
    /\ asserts \in BOOLEAN
    /\ leakCheck = TRUE
    /\ clearTemp = asserts
    /\ tempBase = [t \in Threads |-> 2 * DefaultAlign + (t - 1) * 2 * B_TEMP_MEM_SIZE]
    /\ HeapStart

CallAlloc(limit) ==
    /\ status = "running"
    /\ NCalls < limit
    /\ \E size \in 0..MaxSize :
         /\ debugAlloc(size, AllocSite)
         /\ Account("debugAlloc", NULL, size, IF size = 0 THEN "other" ELSE "alloc")
         /\ rt' = IF ret' # NULL
                  THEN [ok |-> TRUE, ptr |-> ret', num |-> b__heapStats.currNumAllocs,
                        bytes |-> b__heapStats.currBytesAlloced,
                        ring |-> RingOf(mem, b__firstHeapBlock)]
                  ELSE NoRt

CallRealloc(limit, ptrs) ==
    /\ status = "running"
    /\ NCalls < limit
    /\ \E p \in ptrs, size \in 0..MaxSize :
         /\ debugRealloc(p, size, ReallocSite)
         /\ Account("debugRealloc", p, size, IF p # NULL /\ size # 0 THEN "realloc" ELSE "other")
         /\ rt' = NoRt

CallFree(limit, ptrs) ==
    /\ status = "running"
    /\ NCalls < limit
    /\ \E p \in ptrs :
         /\ debugFree(p, FreeSite)
         /\ ret' = NULL
         /\ Account("debugFree", p, 0, IF p = NULL THEN "other" ELSE "free")
         /\ rt' = NoRt

\* the bytes of a watermark an overrun is tried on: the first and the last
FlipAt == {1, WaterMarkLen}

\* the caller writes one byte outside its payload, into a watermark of a live block
Overrun ==
    /\ status = "running"
    /\ overran < MaxCorrupt
    /\ \E a \in allocated, i \in FlipAt, which \in {"header", "footer"} :
         mem' = IF which = "header"
                THEN [mem EXCEPT ![a].header[i] = 255 - @]
                ELSE [mem EXCEPT ![a].footer[i] = 255 - @]
    /\ overran' = overran + 1
    /\ rt' = NoRt
    /\ UNCHANGED <<allocated, b__firstHeapBlock, b__heapStats, status, now, ret,
                   lastCall, calls, stale, misuse, peak, dumped, dumps>>
    /\ UNCHANGED buildVars
    /\ UNCHANGED tempVars

Tick ==
    /\ status = "running"
    /\ now < MaxTime
    /\ now' = now + 1
    /\ UNCHANGED <<mem, allocated, b__firstHeapBlock, b__heapStats, status, ret,
                   lastCall, calls, stale, misuse, overran, peak, rt, dumped, dumps>>
    /\ UNCHANGED buildVars
    /\ UNCHANGED tempVars

\* any caller: overruns and stale pointers included
Next ==
    \/ CallAlloc(MaxCalls)
    \/ CallRealloc(MaxCalls, Held)
    \/ CallFree(MaxCalls, Held)
    \/ Overrun
    \/ Tick

Spec == Init /\ [][Next]_vars

\* a caller that writes only inside its payloads and passes only live pointers
CleanNext ==
    \/ CallAlloc(MaxCleanCalls)
    \/ CallRealloc(MaxCleanCalls, HeldLive)
    \/ CallFree(MaxCleanCalls, HeldLive)
    \/ Tick

CleanSpec == Init /\ [][CleanNext]_vars

CallDump ==
    /\ status = "running"
    /\ dumps < MaxDumps
    /\ debugHeapDump

\* a well-behaved caller that also dumps the heap
DumpNext ==
    \/ CallAlloc(MaxDumpCalls)
    \/ CallRealloc(MaxDumpCalls, HeldLive)
    \/ CallFree(MaxDumpCalls, HeldLive)
    \/ CallDump
    \/ Tick

DumpSpec == Init /\ [][DumpNext]_vars

\* ------------------------------------------------- callers of the temporary storage
TallocSizes == {0, MaxTSize - 1, MaxTSize, SizeMod - 1}
TallocAligns == {0, 1, MaxAlign - 1, MaxAlign}
TempMarks(t) == (-1..MaxMark) \cup (IF marked[t].ok THEN {marked[t].m} ELSE {})

CallTalloc(ts, limit) ==
    /\ status = "running"
    /\ acalls < limit
    /\ \E t \in ts, size \in TallocSizes, align \in TallocAligns : talloc(t, size, align)

CallTempMark(ts, limit) ==
    /\ status = "running"
    /\ acalls < limit
    /\ \E t \in ts :
         /\ ~(marked[t].ok /\ marked[t].m = ToInt(b__tempMemStats[t].currBytesAlloced))
         /\ tempMark(t)

CallTempReset(ts, limit) ==
    /\ status = "running"
    /\ acalls < limit
    /\ \E t \in ts : \E mark \in TempMarks(t) : tempReset(t, mark)

\* every build, both placements of the buffer
TempInit ==
    /\ Start
    /\ asserts \in BOOLEAN
    /\ leakCheck \in BOOLEAN
    /\ clearTemp \in BOOLEAN
    /\ \E base \in TempBases :
         tempBase = [t \in Threads |-> base + (t - 1) * 2 * B_TEMP_MEM_SIZE]
    /\ HeapStart

\* one thread using the temporary storage
MainThread == {1}

TempNext ==
    \/ CallTalloc(MainThread, MaxArenaCalls)
    \/ CallTempMark(MainThread, MaxArenaCalls)
    \/ CallTempReset(MainThread, MaxArenaCalls)
    \/ \E t \in MainThread : Fill(t)

TempSpec == TempInit /\ [][TempNext]_vars

\* every thread using its temporary storage, the calls interleaved in any order
ThreadsNext ==
    \/ CallTalloc(Threads, MaxThreadCalls)
    \/ CallTempMark(Threads, MaxThreadCalls)
    \/ CallTempReset(Threads, MaxThreadCalls)
    \/ \E t \in Threads : Fill(t)

ThreadsSpec == TempInit /\ [][ThreadsNext]_vars

\* ------------------------------------------------- helpers of the properties
RECURSIVE SumSizes(_, _)
SumSizes(m, blocks) ==
    IF blocks = {} THEN 0
    ELSE LET b == CHOOSE x \in blocks : TRUE IN m[b].size + SumSizes(m, blocks \ {b})

\* exactly one byte of the watermark c differs from the fingerprint
OneByteOff(c, mark) == Cardinality({i \in 1..WaterMarkLen : c[i] # mark[i]}) = 1

\* this step is a call of op on pointer p
Called(op, p) ==
    /\ NCalls' = NCalls + 1
    /\ lastCall'.op = op
    /\ lastCall'.mem = p

\* this step is debugFree(p), or debugRealloc(p, size) with non-zero size
FreeOrRealloc(p) ==
    \/ Called("debugFree", p)
    \/ Called("debugRealloc", p) /\ lastCall'.size # 0

HeapUntouched == UNCHANGED <<mem, allocated, b__firstHeapBlock, b__heapStats>>

\* ------------------------------------------------- C1
\* C1: after any sequence of debugAlloc, debugRealloc and debugFree calls of a
\* well-behaved caller the registry is empty with a null anchor, or one circular
\* doubly-linked ring from the anchor that holds every live block exactly once,
\* all links and the anchor pointing at live blocks, next(prev(b)) = prev(next(b)) = b.
C1_RegistryWellFormed ==
    IF allocated = {}
    THEN b__firstHeapBlock = NULL
    ELSE /\ b__firstHeapBlock \in allocated
         /\ \A b \in allocated :
              /\ mem[b].prev \in allocated
              /\ mem[b].next \in allocated
              /\ mem[mem[b].prev].next = b
              /\ mem[mem[b].next].prev = b
         /\ RingOf(mem, b__firstHeapBlock) = allocated

\* ------------------------------------------------- C2
\* C2: while the caller has written only inside its payloads, every live block has
\* the header fingerprint before its payload and the footer fingerprint after its
\* payload of the current size, also after debugRealloc changed its size or address.
C2_WatermarksIntact ==
    \A a \in allocated :
        /\ MemEq(mem[a].header, HeaderMark, WaterMarkLen)
        /\ MemEq(mem[a].footer, FooterMark, WaterMarkLen)

\* ------------------------------------------------- C3
\* C3: where B_ASSERT is compiled in, debugFree of a live block with one byte of its footer watermark changed
\* raises the assertion and does not complete: nothing is unlinked, no statistic
\* changes, nothing is released.
C3_FooterOverrunStopsFree ==
    [][\A p \in allocated :
         ( /\ asserts
           /\ mem[p].header = HeaderMark
           /\ OneByteOff(mem[p].footer, FooterMark)
           /\ Called("debugFree", p) )
         => (status' = "assert" /\ HeapUntouched)]_vars

\* ------------------------------------------------- C4
\* C4: where B_ASSERT is compiled in, with a byte of the header watermark of a live block changed, debugRealloc
\* (non-null pointer, non-zero size) and debugFree on it raise the assertion and
\* leave the block, the ring and the statistics as they were (the general-purpose
\* allocator not failing).
C4_HeaderOverrunStopsCall ==
    [][\A p \in allocated :
         ( /\ asserts
           /\ mem[p].header # HeaderMark
           /\ FreeOrRealloc(p)
           /\ status' # "segv" )
         => (status' = "assert" /\ HeapUntouched)]_vars

\* ------------------------------------------------- C5
\* C5: debugFree and debugRealloc on a live block whose two watermarks hold their
\* fingerprints never trip the assertion.
C5_IntactNeverTrips ==
    [][\A p \in allocated :
         ( /\ mem[p].header = HeaderMark
           /\ mem[p].footer = FooterMark
           /\ FreeOrRealloc(p) )
         => status' # "assert"]_vars

\* B_ASSERT is compiled in and a debugFree of a block with intact watermarks has
\* run to completion
C5_Witness ==
    /\ asserts
    /\ overran = 0
    /\ status = "running"
    /\ lastCall.op = "debugFree"
    /\ lastCall.mem \in stale
    /\ calls.free = 1
    /\ b__heapStats.totalNumFrees = 1

\* ------------------------------------------------- C6
\* C6: where B_ASSERT is compiled in, once debugFree(p) has completed, debugFree or debugRealloc on the stale p
\* raises the assertion and changes neither the ring nor the statistics (the
\* general-purpose allocator not failing).
C6_FreedIsTerminal ==
    [][\A p \in stale :
         ( /\ asserts
           /\ calls.realloc = 0
           /\ FreeOrRealloc(p)
           /\ status' # "segv" )
         => (status' = "assert" /\ HeapUntouched)]_vars

\* ------------------------------------------------- C7
\* C7: currBytesAlloced is the sum of the current sizes of the live blocks.
C7_CurrBytesIsLiveSum ==
    b__heapStats.currBytesAlloced = SumSizes(mem, allocated)

\* ------------------------------------------------- C8
\* C8: maxBytesAlloced is the largest value currBytesAlloced has held and
\* maxNumAllocs the largest value currNumAllocs has held.
C8_PeaksExact ==
    /\ b__heapStats.maxBytesAlloced = peak.bytes
    /\ b__heapStats.maxNumAllocs = peak.num

\* ------------------------------------------------- C9
\* C9: currNumAllocs is the number of live blocks and totalNumAllocs minus
\* totalNumFrees; totalNumReallocs is the number of completed debugRealloc calls
\* with non-null pointer and non-zero size; one block allocated, reallocated k
\* times and freed ends with totalNumAllocs 1, totalNumReallocs k, totalNumFrees 1,
\* currNumAllocs 0.
C9_CountersConsistent ==
    /\ b__heapStats.currNumAllocs = Cardinality(allocated)
    /\ b__heapStats.currNumAllocs = b__heapStats.totalNumAllocs - b__heapStats.totalNumFrees
    /\ b__heapStats.totalNumReallocs = calls.realloc
    /\ (calls.alloc = 1 /\ calls.free = 1 /\ calls.other = 0)
         => /\ b__heapStats.totalNumAllocs = 1
            /\ b__heapStats.totalNumReallocs = calls.realloc
            /\ b__heapStats.totalNumFrees = 1
            /\ b__heapStats.currNumAllocs = 0

C9_Witness ==
    /\ calls = [alloc |-> 1, realloc |-> 2, free |-> 1, other |-> 0]
    /\ allocated = {}
    /\ b__heapStats.totalNumReallocs = 2

\* ------------------------------------------------- C10
\* C10: debugAlloc(n), n > 0, immediately followed by debugFree of the returned
\* pointer leaves currNumAllocs and currBytesAlloced at their values before the
\* allocation and the ring holding exactly the blocks it held before.
C10_AllocFreeRoundTrip ==
    [][( /\ rt.ok
         /\ Called("debugFree", rt.ptr)
         /\ status' = "running" )
       => /\ b__heapStats'.currNumAllocs = rt.num
          /\ b__heapStats'.currBytesAlloced = rt.bytes
          /\ RingOf(mem', b__firstHeapBlock') = rt.ring]_vars

\* ------------------------------------------------- C11
\* C11: debugRealloc(NULL, n), n > 0, is a step of debugAlloc(n) with the same
\* result, registry and statistics, totalNumReallocs not incremented;
\* debugRealloc(p, 0) is a step of debugFree(p) and returns NULL;
\* debugRealloc(NULL, 0) changes nothing and returns NULL.
C11_DegenerateRealloc ==
    [][\A p \in Ptr :
         /\ (Called("debugRealloc", p) /\ lastCall'.size = 0)
               => /\ debugFree(p, ReallocSite)
                  /\ ret' = NULL
                  /\ (p = NULL => (HeapUntouched /\ status' = status))
         /\ (Called("debugRealloc", p) /\ p = NULL /\ lastCall'.size # 0)
               => /\ debugAlloc(lastCall'.size, ReallocSite)
                  /\ b__heapStats'.totalNumReallocs = b__heapStats.totalNumReallocs]_vars

\* debugRealloc(NULL, n) has returned a block and debugRealloc(p, 0) has released it
C11_Witness ==
    /\ status = "running"
    /\ lastCall.op = "debugRealloc"
    /\ lastCall.size = 0
    /\ lastCall.mem \in stale
    /\ calls = [alloc |-> 0, realloc |-> 0, free |-> 0, other |-> 2]
    /\ allocated = {}
    /\ b__heapStats.totalNumAllocs = 1
    /\ b__heapStats.totalNumFrees = 1
    /\ b__heapStats.totalNumReallocs = 0
    /\ ret = NULL
\* ------------------------------------------------- C12
\* C12: when the general-purpose allocator fails, debugAlloc and debugRealloc
\* (non-zero size) return NULL to the caller, and the anchor, the links of the
\* ring and the heap statistics are as before the call.
C12_AllocatorFailureReturnsNull ==
    [][( /\ NCalls' = NCalls + 1
         /\ lastCall'.op \in {"debugAlloc", "debugRealloc"}
         /\ lastCall'.size # 0
         /\ status' # "assert"
         /\ ret' = NULL )
       => /\ status' = "running"
          /\ HeapUntouched]_vars
\* ------------------------------------------------- C13
\* C13: in every state reached by debugAlloc, debugRealloc and debugFree calls, the
\* walk of debugHeapDump from the anchor along next comes to an end, has visited
\* every live block exactly once and nothing else, and visits nothing when the
\* registry is empty.
C13_DumpVisitsLiveOnce ==
    lastCall.op = "debugHeapDump"
    => /\ status = "running"
       /\ {dumped[i].block : i \in DOMAIN dumped} = allocated
       /\ Len(dumped) = Cardinality(allocated)
\* ------------------------------------------------- C14
\* C14: debugHeapDump (reading the anchor through debugGetFirstHeapBlock) changes
\* neither the ring, the anchor, the metadata of any block nor the statistics, and
\* a dump that follows a dump with no debugAlloc, debugRealloc or debugFree in
\* between prints the same sequence of block descriptors.
C14_DumpIsPureRead ==
    [][(lastCall'.op = "debugHeapDump" /\ dumps' = dumps + 1)
       => /\ HeapUntouched
          /\ (dumps >= 1 => dumped' = dumped)]_vars

\* two dumps in a row of a registry of two blocks, one of them reallocated
C14_Witness ==
    /\ status = "running"
    /\ lastCall.op = "debugHeapDump"
    /\ dumps = 2
    /\ Len(dumped) = 2
    /\ Cardinality(allocated) = 2
    /\ \E i \in DOMAIN dumped : dumped[i].from # <<>>
\* ------------------------------------------------- helpers of the properties
\* the last call was talloc(size, align) by thread t and returned memory of the buffer
TallocReturned(t) ==
    /\ status = "running"
    /\ lastCall.op = "talloc"
    /\ lastCall.t = t
    /\ tret.where = "buffer"

\* the caller of thread t has kept to power-of-two alignments, to marks not above
\* the cursor and to sizes that fit the size_t range
TempClean(t) == tmisuse[t] = {}

\* the cursor of thread t
Cursor(t) == b__tempMemStats[t].currBytesAlloced

\* this step is a call of talloc by thread t
TallocCalled(t) ==
    /\ acalls' = acalls + 1
    /\ lastCall'.op = "talloc"
    /\ lastCall'.t = t

\* this step is a call of tempReset by thread t
TempResetCalled(t) ==
    /\ acalls' = acalls + 1
    /\ lastCall'.op = "tempReset"
    /\ lastCall'.t = t

\* ------------------------------------------------- C15
\* C15: while the talloc calls stay within capacity and the alignments are powers
\* of two (0 standing for 8), every pointer p that talloc returns into the buffer
\* has p mod align = 0.
C15_PointerAligned ==
    \A t \in Threads :
        (TallocReturned(t) /\ TempClean(t))
        => tret.ptr % TallocAlign(lastCall.align) = 0
\* ------------------------------------------------- C16
\* the bytes of a talloc result, as offsets into the buffer
RangeOf(r) == r.start .. (r.start + r.size - 1)

\* the results in rs are pairwise disjoint and inside the buffer
DisjointInside(rs) ==
    /\ \A a \in rs : RangeOf(a) \subseteq 0..(B_TEMP_MEM_SIZE - 1)
    /\ \A a \in rs, b \in rs : a # b => RangeOf(a) \cap RangeOf(b) = {}

\* C16 as stated: on one thread, after in-capacity talloc calls and tempReset calls,
\* any two talloc results that no tempReset to a mark at or below their start has
\* taken back have disjoint byte ranges, inside [0, C).
C16_LiveRangesDisjoint ==
    \A t \in Threads : TempClean(t) => DisjointInside(tlive[t])

\* C16, amended: on one thread, after in-capacity talloc calls and tempReset calls,
\* any two talloc results that no tempReset to a mark below their end has taken
\* back (wholly or in part) have disjoint byte ranges, inside [0, C).
C16_UncutRangesDisjoint ==
    \A t \in Threads : TempClean(t) => DisjointInside({r \in tlive[t] : ~r.cut})

\* two results of non-zero size are live after talloc, tempReset, talloc
C16_Witness ==
    /\ status = "running"
    /\ TempClean(1)
    /\ acalls = 3
    /\ lastCall.op = "talloc"
    /\ b__tempMemStats[1].totalNumAllocs = 2
    /\ b__tempMemStats[1].totalNumLeaks = 0
    /\ Cardinality({r \in tlive[1] : ~r.cut /\ r.size > 0}) = 2
\* ------------------------------------------------- C17
\* C17: with power-of-two alignments and marks not above the cursor, the cursor is
\* in [0, C] in every state, and no talloc call, whatever its size, decreases it.
C17_CursorBoundedMonotone ==
    [][\A t \in Threads :
         (tmisuse'[t] \subseteq {"huge"})
         => /\ 0 <= Cursor(t)' /\ Cursor(t)' <= B_TEMP_MEM_SIZE
            /\ TallocCalled(t) => Cursor(t)' >= Cursor(t)]_vars
\* ------------------------------------------------- C18
\* the overflow path was taken: one more leak of size bytes, memory of the
\* general-purpose allocator returned, nothing else of the temporary storage changed
OverflowTaken(t, size) ==
    /\ b__tempMemStats'[t] = [b__tempMemStats[t] EXCEPT
                                 !.totalNumLeaks = SzAdd(@, 1),
                                 !.totalBytesLeaked = SzAdd(@, size)]
    /\ tret'.where = "heap"
    /\ tlive'[t] = tlive[t]
    /\ b__tempMem' = b__tempMem

\* Scenario A: capacity 1024, talloc(600, 8) twice
ScenarioA ==
    LET s1 == TallocStatsAfter(TempMemStats0, 600, 8, 1024)
        s2 == TallocStatsAfter(s1, 600, 8, 1024)
    IN  /\ s1.currBytesAlloced = 600 /\ s1.totalNumLeaks = 0
        /\ s2.currBytesAlloced = 600
        /\ s2.totalNumLeaks = 1
        /\ s2.totalBytesLeaked = 600

\* C18: a talloc call (power-of-two alignment) with alignedOffset + size > C adds 1
\* to totalNumLeaks and size to totalBytesLeaked, returns memory of the
\* general-purpose allocator, and leaves the cursor, totalNumAllocs, the byte
\* counters, the per-cycle counters and the live results as they were (the
\* general-purpose allocator not failing under debugAlloc); with C = 1024,
\* talloc(600, 8) twice ends with cursor 600, totalNumLeaks 1, totalBytesLeaked 600.
C18_OverflowAbsorbed ==
    [][/\ ScenarioA
       /\ \A t \in Threads :
            ( /\ TallocCalled(t)
              /\ tmisuse[t] = {}
              /\ TallocAlignOk(lastCall'.align)
              /\ TallocStart(b__tempMemStats[t], lastCall'.align) + lastCall'.size
                    > B_TEMP_MEM_SIZE
              /\ status' # "segv" )
            => OverflowTaken(t, lastCall'.size)]_vars
\* ------------------------------------------------- C19
\* x rounded up to a multiple of a, in the integers
CeilTo(x, a) == ((x + a - 1) \div a) * a

\* C19: tempMark changes no state and returns the cursor; after m = tempMark() and
\* any number of talloc calls (power-of-two alignments), tempReset(m) completes and
\* leaves the cursor at m; and the in-capacity talloc(size, align) that follows a
\* completed tempReset(m) returns the offset m rounded up to a multiple of align,
\* which is what it would have returned when the mark was taken.
C19_MarkResetRoundTrip ==
    [][\A t \in Threads :
         /\ (lastCall'.op = "tempMark" /\ lastCall'.t = t /\ tret'.where = "mark"
                /\ marked'[t] # marked[t])
              => /\ Cursor(t) <= B_TEMP_MEM_SIZE => tret'.ptr = Cursor(t)
                 /\ UNCHANGED <<b__tempMem, b__tempMemStats, tlive, status>>
                 /\ HeapUntouched
         /\ (TempResetCalled(t) /\ marked[t].ok /\ lastCall'.mark = marked[t].m
                /\ tmisuse[t] \subseteq {"huge"})
              => /\ status' = "running"
                 /\ Cursor(t)' = marked[t].m
         /\ (TallocCalled(t) /\ lastCall.op = "tempReset" /\ lastCall.t = t
                /\ tmisuse'[t] = {} /\ tret'.where = "buffer")
              => tret'.ptr - tempBase[t] = CeilTo(lastCall.mark, TallocAlign(lastCall'.align))]_vars
\* ------------------------------------------------- C20
\* C20: in a build that clears, tempReset(mark) with 0 <= mark <= cursor completes,
\* and afterwards every byte of the buffer in [mark, old cursor) is zero and every
\* byte in [0, mark) is what it was.
C20_ResetClears ==
    [][\A t \in Threads :
         ( /\ TempResetCalled(t)
           /\ clearTemp
           /\ 0 <= lastCall'.mark
           /\ lastCall'.mark <= Cursor(t) )
         => /\ status' = "running"
            /\ \A i \in 0..(B_TEMP_MEM_SIZE - 1) :
                 /\ (lastCall'.mark <= i /\ i < Cursor(t)) => b__tempMem'[t][i] = 0
                 /\ i < lastCall'.mark => b__tempMem'[t][i] = b__tempMem[t][i]]_vars

\* a result of MaxTSize bytes was filled by the caller and tempReset(1) has cleared
\* all of it but the first byte
C20_Witness ==
    /\ clearTemp
    /\ status = "running"
    /\ lastCall.op = "tempReset"
    /\ lastCall.mark = 1
    /\ b__tempMem[1][0] = FillByte
    /\ \A i \in 1..(MaxTSize - 1) : b__tempMem[1][i] = 0
    /\ \E r \in tlive[1] : r.start = 0 /\ r.size = MaxTSize /\ r.cut
\* ------------------------------------------------- C21
\* the mark passed in this step is negative or above the cursor of thread t
MarkAboveCursor(t) == lastCall'.mark < 0 \/ lastCall'.mark > Cursor(t)

StepOf(u) ==
    IF lastCall' = lastCall /\ tret' = tret
    THEN tret.t = u
    ELSE lastCall'.t = u

\* the temporary storage of thread t: buffer contents, cursor and statistics
TempStateOf(t) == <<b__tempMem[t], b__tempMemStats[t]>>

\* what a call by thread u gives when u runs alone: computed from the storage of
\* u and the arguments, nothing else
AsIfAlone(u) ==
    LET s == b__tempMemStats[u]
    IN  /\ (lastCall'.op = "talloc" /\ acalls' = acalls + 1 /\ status' = "running")
           => /\ b__tempMemStats'[u] =
                    TallocStatsAfter(s, lastCall'.size, lastCall'.align, B_TEMP_MEM_SIZE)
              /\ tret'.where = "buffer"
                    => tret'.ptr = tempBase[u] + TallocStart(s, lastCall'.align)
              /\ b__tempMem'[u] = b__tempMem[u]
        /\ (lastCall'.op = "tempMark" /\ tret'.where = "mark")
           => /\ tret'.ptr = ToInt(s.currBytesAlloced)
              /\ TempStateOf(u)' = TempStateOf(u)
        /\ (lastCall'.op = "tempReset" /\ acalls' = acalls + 1 /\ status' = "running")
           => /\ b__tempMemStats'[u] = TempResetStats(s, ToSize(lastCall'.mark))
              /\ b__tempMem'[u] = IF clearTemp
                                  THEN TempClear(b__tempMem[u], ToSize(lastCall'.mark),
                                                 s.currBytesAlloced)
                                  ELSE b__tempMem[u]

\* C22: with two threads calling talloc, tempMark and tempReset in any
\* interleaving, a step of one thread leaves the other thread's buffer contents,
\* cursor and TempMemStats unchanged, and what the stepping thread gets is what
\* it would get running alone.
C22_ThreadsIsolated ==
    [][\A u \in Threads :
         StepOf(u)
         => /\ \A t \in Threads \ {u} : TempStateOf(t)' = TempStateOf(t)
            /\ AsIfAlone(u)]_vars

\* both threads have allocated from their own buffers: thread 1 took MaxTSize
\* bytes and filled them, thread 2 then took MaxTSize - 1 bytes at the start of
\* its own buffer, which is still clear
C22_Witness ==
    /\ status = "running"
    /\ acalls = MaxThreadCalls
    /\ Cursor(1) = MaxTSize
    /\ \A i \in 0..(MaxTSize - 1) : b__tempMem[1][i] = FillByte
    /\ Cursor(2) = MaxTSize - 1
    /\ tret = [t |-> 2, where |-> "buffer", ptr |-> tempBase[2]]
    /\ \A i \in DOMAIN b__tempMem[2] : b__tempMem[2][i] = 0

\* ------------------------------------------------- C23
\* this step is a debugRealloc(p, size) that completed and moved the block
ReallocMoved(p) ==
    /\ Called("debugRealloc", p)
    /\ p \in allocated
    /\ status' = "running"
    /\ ret' # NULL
    /\ ret' # p

\* C23: when debugRealloc moves a block out of a well-formed ring, no reference
\* to the old address remains afterwards: no link of a live block (the moved
\* block's own links included) and not the anchor.
C23_MoveLeavesNoOldReference ==
    [][\A p \in Addr :
         (C1_RegistryWellFormed /\ ReallocMoved(p))
         => /\ \A b \in allocated' : mem'[b].prev # p /\ mem'[b].next # p
            /\ b__firstHeapBlock' # p]_vars

\* ------------------------------------------------- C24
\* this step is a debugFree(p) of a live block that completed
FreeDone(p) ==
    /\ Called("debugFree", p)
    /\ p \in allocated
    /\ status' = "running"

\* the link l of a remaining block once p is bypassed in direction dir
Bypass(m, p, l, dir) == IF l = p THEN m[p][dir] ELSE l

\* C24: from a well-formed ring, debugFree(p) removes exactly p's block and
\* leaves the remaining live blocks in one well-formed ring in their previous
\* cyclic order (every link that went to p now goes to what p linked to), for any
\* ring size and whether or not p is the anchor; the anchor becomes null exactly
\* when the ring becomes empty and otherwise is a remaining live block (the old
\* anchor, or its successor when the anchor was freed).
C24_FreeKeepsRing ==
    [][\A p \in Addr :
         (C1_RegistryWellFormed /\ FreeDone(p))
         => /\ allocated' = allocated \ {p}
            /\ C1_RegistryWellFormed'
            /\ \A b \in allocated' :
                 /\ mem'[b].next = Bypass(mem, p, mem[b].next, "next")
                 /\ mem'[b].prev = Bypass(mem, p, mem[b].prev, "prev")
            /\ (b__firstHeapBlock' = NULL) <=> (allocated' = {})
            /\ allocated' # {}
                 => b__firstHeapBlock' = Bypass(mem, p, b__firstHeapBlock, "next")]_vars

\* three blocks were live and the one after the anchor was freed: the anchor and
\* the third block are left, linked to each other
C24_Witness ==
    /\ status = "running"
    /\ lastCall.op = "debugFree"
    /\ calls.alloc = 3
    /\ calls.free = 1
    /\ Cardinality(allocated) = 2
    /\ b__firstHeapBlock \in allocated
    /\ LET p == lastCall.mem
       IN  /\ p \notin allocated
           /\ mem[p].prev = b__firstHeapBlock
           /\ mem[p].next \in allocated \ {b__firstHeapBlock}
           /\ mem[b__firstHeapBlock].next = mem[p].next
           /\ mem[mem[p].next].prev = b__firstHeapBlock

\* ------------------------------------------------- C25
\* the five fields a block keeps from its debugAlloc call
Origin(b) == <<b.size0, b.file0, b.func0, b.line0, b.time0>>

\* the five fields of the last call that sized the block
Current(b) == <<b.size, b.file, b.func, b.line, b.time>>

\* everything of a block but its two links
Unlinked(b) == <<Origin(b), Current(b), b.header, b.footer>>

\* this step is a debugRealloc(p, size) of a live block with a non-zero size that
\* completed
ReallocDone(p) ==
    /\ Called("debugRealloc", p)
    /\ p \in allocated
    /\ lastCall'.size # 0
    /\ status' = "running"
    /\ ret' # NULL

\* C25: a block that was never reallocated (debugAlloc just returned it, or its
\* line is still the line of the allocation site) has size, file, func, line and
\* time equal to size0, file0, func0, line0 and time0; every debugRealloc leaves
\* the five *0 fields of the block unchanged, sets the current five to the values
\* of that call, and changes nothing of any other live block except the next
\* link of the predecessor and the prev link of the successor.
C25_OriginKept ==
    [][/\ \A b \in allocated' :
            mem'[b].line = AllocSite.line => Current(mem'[b]) = Origin(mem'[b])
       /\ (NCalls' = NCalls + 1 /\ ret' # NULL /\ status' = "running"
             /\ (lastCall'.op = "debugAlloc"
                   \/ (lastCall'.op = "debugRealloc" /\ lastCall'.mem = NULL)))
            => Current(mem'[ret']) = Origin(mem'[ret'])
       /\ \A p \in Addr :
            ReallocDone(p)
            => /\ Origin(mem'[ret']) = Origin(mem[p])
               /\ Current(mem'[ret']) = <<lastCall'.size, ReallocSite.file, ReallocSite.func,
                                          ReallocSite.line, now>>
               /\ \A b \in allocated \ {p} :
                    /\ b \in allocated'
                    /\ Unlinked(mem'[b]) = Unlinked(mem[b])
                    /\ mem'[b].next # mem[b].next => b = mem[p].prev
                    /\ mem'[b].prev # mem[b].prev => b = mem[p].next]_vars

\* a block allocated with one byte at time 0 was reallocated to MaxSize bytes at
\* a later time next to a block that was never reallocated
C25_Witness ==
    /\ status = "running"
    /\ lastCall.op = "debugRealloc"
    /\ ret \in allocated
    /\ Origin(mem[ret]) = <<1, AllocSite.file, AllocSite.func, AllocSite.line, 0>>
    /\ Current(mem[ret]) = <<MaxSize, ReallocSite.file, ReallocSite.func, ReallocSite.line, MaxTime>>
    /\ \E b \in allocated \ {ret} : Current(mem[b]) = Origin(mem[b])

\* ------------------------------------------------- C26
\* C26: the lifespan debugFree(p) folds into avgAllocLifespan is the time of the
\* free call minus the block's time0, reallocated or not: after the free the
\* average is the running mean with that lifespan as its newest term.
C26_LifespanFromFreeTime ==
    [][\A p \in Addr :
         FreeDone(p)
         => b__heapStats'.avgAllocLifespan
              = FreeStats(b__heapStats, mem[p].size, now - mem[p].time0).avgAllocLifespan]_vars

\* ------------------------------------------------- C27
\* the two per-cycle counters of thread t
CycleCounters(t) ==
    <<b__tempMemStats[t].numAllocsSinceFullReset, b__tempMemStats[t].bytesAllocedSinceFullReset>>

\* C27: the per-cycle counters are cleared only by a full reset: tempReset(mark)
\* with 0 < mark <= cursor leaves numAllocsSinceFullReset and
\* bytesAllocedSinceFullReset unchanged, tempReset(0) sets both to zero and
\* increments totalNumFullResets by 1.
C27_CycleCountersClearedByFullResetOnly ==
    [][\A t \in Threads :
         (TempResetCalled(t) /\ status' = "running" /\ ~MarkAboveCursor(t))
         => IF lastCall'.mark = 0
            THEN /\ CycleCounters(t)' = <<0, 0>>
                 /\ b__tempMemStats'[t].totalNumFullResets
                      = SzAdd(b__tempMemStats[t].totalNumFullResets, 1)
            ELSE CycleCounters(t)' = CycleCounters(t)]_vars

\* ------------------------------------------------- C28
\* C28: in every build, the one with the malloc macro included, a talloc call
\* adds no block to the registry ring and changes no field of the heap
\* statistics: the overflow fallback goes straight to the general-purpose
\* allocator.
C28_TallocLeavesRegistryAlone ==
    [][\A t \in Threads :
         TallocCalled(t)
         => /\ RingOf(mem', b__firstHeapBlock') = RingOf(mem, b__firstHeapBlock)
            /\ b__firstHeapBlock' = b__firstHeapBlock
            /\ b__heapStats' = b__heapStats]_vars

\* ------------------------------------------------- C29
\* alignedOffset + size of this talloc call by thread t, in the integers
TallocEndUnbounded(t) ==
    TallocStart(b__tempMemStats[t], lastCall'.align) + lastCall'.size

\* C29: for every size of the size_t range (power-of-two alignment), talloc
\* returns a pointer into the buffer only when alignedOffset + size <= C in the
\* integers; when alignedOffset + size wraps modulo 2^w the call is an overflow:
\* no pointer into the buffer, and the cursor is not moved.
C29_WrapIsOverflow ==
    [][\A t \in Threads :
         (TallocCalled(t) /\ TallocAlignOk(lastCall'.align) /\ status' = "running")
         => /\ tret'.where = "buffer" => TallocEndUnbounded(t) <= B_TEMP_MEM_SIZE
            /\ TallocEndUnbounded(t) >= SizeMod
                 => /\ tret'.where # "buffer"
                    /\ Cursor(t)' = Cursor(t)]_vars

\* ------------------------------------------------- C30
\* the blocks met by following next from b, in the order met, until one repeats
RECURSIVE WalkSeq(_, _, _)
WalkSeq(m, b, seq) ==
    IF \E i \in 1..Len(seq) : seq[i] = b
    THEN seq
    ELSE WalkSeq(m, m[b].next, Append(seq, b))

\* the registry as debugHeapDump walks it: from the anchor, following next
RingSeq(m, first) == IF first = NULL THEN <<>> ELSE WalkSeq(m, first, <<>>)

\* the sequence without its element x
Without(seq, x) == SelectSeq(seq, LAMBDA y : y # x)

\* the sequence with q in the place of p
Renamed(seq, p, q) == [i \in 1..Len(seq) |-> IF seq[i] = p THEN q ELSE seq[i]]

\* C30: registry order is allocation order, oldest first from the anchor. Step by
\* step, from a well-formed ring: debugAlloc appends the new block at the end of
\* the walk from the anchor (immediately before the anchor), debugRealloc leaves
\* the walk as it was with the block's new address in its old place, and
\* debugFree takes the block out of the walk, so that freeing the anchor makes
\* the next-oldest block the anchor.
C30_RingIsAllocationOrder ==
    [][(C1_RegistryWellFormed /\ NCalls' = NCalls + 1 /\ status' = "running")
       => LET before == RingSeq(mem, b__firstHeapBlock)
              after  == RingSeq(mem', b__firstHeapBlock')
              p      == lastCall'.mem
          IN  /\ (allocated' \ allocated # {} /\ p = NULL)
                   => after = Append(before, ret')
              /\ (p \in allocated /\ lastCall'.op = "debugRealloc" /\ lastCall'.size # 0)
                   => after = Renamed(before, p, ret')
              /\ (p \in allocated /\ p \notin allocated' /\ ret' = NULL)
                   => after = Without(before, p)]_vars
====
